---------------------------- MODULE Spec2Model ----------------------------
(***************************************************************************)
(* Balance engine of the baantlo backend: the ledger aggregator            *)
(* (calculate_group_balances), the debt simplifier (simplify_debts), the   *)
(* Redis snapshot cache around them, and the request handlers that write   *)
(* the rows the aggregator reads (expenses, splits, settlements, group     *)
(* memberships).                                                           *)
(*                                                                         *)
(* Money is a fixed-point decimal with two fractional digits; the model    *)
(* counts it in hundredths (paise), so Decimal("0.01") is 1.               *)
(***************************************************************************)
EXTENDS Integers, Sequences, FiniteSets, TLC

(***************************************************************************)
(* Bounds of the model.                                                    *)
(***************************************************************************)
\* largest amount (in paise) a request may carry
MaxAmount == 1
\* number of expense rows a behaviour may create
MaxExpenses == 1
\* number of settlement rows a behaviour may create
MaxSettlements == 1
\* number of entries of a split list in a request
MaxSplits == 2
\* length of a balance list handed to simplify_debts
MaxLen == 3
\* largest magnitude (in paise) of a balance handed to simplify_debts
MaxBalance == 4
\* iterations after which the walk of simplify_debts is cut off; the loop
\* of the code ends before it
MaxIter == MaxLen + 2
\* transactions the concurrent writers commit in one behaviour
MaxCommits == 2

Users == {"a", "b", "c"}
Groups == {"g1"}
\* a Redis key that holds nothing; a key that holds v is <<v>>
NoEntry == <<>>

\* Decimal("0.01"), the dust threshold of simplify_debts and the tolerance of
\* _calculate_splits, in paise
DUST == 1

VARIABLES
    group_owner,      \* groups.owner_id, per group
    group_archived,   \* groups.archived_at IS NOT NULL, per group
    members,          \* group_members.status, per group and user
    expenses,         \* expenses rows, the id of a row is its index
    expense_splits,   \* expense_splits rows
    settlements,      \* settlements rows, the id of a row is its index
    redis,            \* the Redis key space: key -> NoEntry or <<value>>
    simp,             \* one call of simplify_debts: its position and locals
    procs,            \* the requests in flight, one per worker: its position and locals
    commit_count,     \* history: number of transactions committed so far
    acked_count       \* history: the latest commit whose response has been sent

vars == <<group_owner, group_archived, members, expenses, expense_splits,
          settlements, redis, simp, procs, commit_count, acked_count>>

db == <<group_owner, group_archived, members, expenses, expense_splits, settlements>>

(***************************************************************************)
(* Helpers.                                                                *)
(***************************************************************************)
RECURSIVE Sum(_, _)
\* func.sum over the rows S of column f (f is a function on S)
Sum(f, S) ==
    IF S = {} THEN 0
    ELSE LET x == CHOOSE y \in S : TRUE IN f[x] + Sum(f, S \ {x})

RECURSIVE SeqSum(_)
\* Python's sum() over a list of numbers
SeqSum(s) == IF s = <<>> THEN 0 ELSE Head(s) + SeqSum(Tail(s))

Abs(x) == IF x < 0 THEN -x ELSE x

\* the larger of the two
Min_Larger(x, y) == IF x <= y THEN y ELSE x

Min(x, y) == IF x <= y THEN x ELSE y

\* A Decimal quotient num/den of non-negative numbers stored in a Numeric(10, 2)
\* column: the database rounds it to two digits, half away from zero.
Quantize(num, den) == (2 * num + den) \div (2 * den)

\* dict.get(key, 0)
Get(d, k) == IF k \in DOMAIN d THEN d[k] ELSE 0

(***************************************************************************)
(* Redis keys.                                                             *)
(***************************************************************************)
GroupKey(g) == <<"balance:group", g>>
UserKey(u) == <<"balance:user", u>>
DashKey(u) == <<"dash:user", u>>
OverviewKey(u) == <<"groups:overview:user", u>>

Keys == {GroupKey(g) : g \in Groups} \cup {UserKey(u) : u \in Users}
        \cup {DashKey(u) : u \in Users} \cup {OverviewKey(u) : u \in Users}

\* r.delete(k) for every k of ks
Deleted(r, ks) == [k \in DOMAIN r |-> IF k \in ks THEN NoEntry ELSE r[k]]

(***************************************************************************)
(* Ledger Aggregator: calculate_group_balances, the part after the cache   *)
(* lookup.  Every operator takes the rows it reads as arguments, so that   *)
(* it can be applied to the committed rows, to a snapshot a reader took,   *)
(* or to the rows of the next state.                                       *)
(***************************************************************************)
ActiveMembers(mem, g) == {u \in Users : mem[g][u] = "active"}

LiveExpenses(exps, g) ==
    {i \in DOMAIN exps : exps[i].group_id = g /\ ~exps[i].deleted}

payer_totals(exps, g) ==
    LET live == LiveExpenses(exps, g)
        keys == {exps[i].payer_id : i \in live}
    IN [u \in keys |->
          Sum([i \in live |-> exps[i].amount_inr],
              {i \in live : exps[i].payer_id = u})]

\* a join that forgets the deleted_at filter
LiveSplits_NoDeletedFilter(exps, spl, g) ==
    {s \in spl : s.expense_id \in DOMAIN exps /\ exps[s.expense_id].group_id = g}

\* the split rows joined to the non-deleted expenses of the group
LiveSplits(exps, spl, g) ==
    {s \in spl : s.expense_id \in LiveExpenses(exps, g)}

split_totals(exps, spl, g) ==
    LET live == LiveSplits(exps, spl, g)
        keys == {s.user_id : s \in live}
    IN [u \in keys |->
          Sum([s \in live |-> s.amount_inr], {s \in live : s.user_id = u})]

\* a filter that excludes cancelled settlements only
CountsAsSettled_AllButCancelled(status) == status # "cancelled"

\* Settlement.status == "completed"
CountsAsSettled(status) == status = "completed"

CompletedSettlements(setl, g) ==
    {i \in DOMAIN setl : setl[i].group_id = g /\ CountsAsSettled(setl[i].status)}

settlement_outgoing(setl, g) ==
    LET done == CompletedSettlements(setl, g)
        keys == {setl[i].from_user_id : i \in done}
    IN [u \in keys |->
          Sum([i \in done |-> setl[i].amount_inr],
              {i \in done : setl[i].from_user_id = u})]

\* incoming totals grouped by the wrong column
settlement_incoming_ByFromUser(setl, g) == settlement_outgoing(setl, g)

settlement_incoming(setl, g) ==
    LET done == CompletedSettlements(setl, g)
        keys == {setl[i].to_user_id : i \in done}
    IN [u \in keys |->
          Sum([i \in done |-> setl[i].amount_inr],
              {i \in done : setl[i].to_user_id = u})]

all_user_ids(mem, exps, spl, setl, g) ==
    ActiveMembers(mem, g) \cup DOMAIN payer_totals(exps, g)
        \cup DOMAIN split_totals(exps, spl, g)
        \cup DOMAIN settlement_outgoing(setl, g)
        \cup DOMAIN settlement_incoming(setl, g)

\* The dict `balances` the result list is built from: user_id -> balance_inr.
\* The result list has one BalanceResponse per key, in the iteration order of
\* a Python set of strings, which the model leaves open.
ComputeBalances(mem, exps, spl, setl, g) ==
    IF ActiveMembers(mem, g) = {} THEN <<>>
    ELSE [u \in all_user_ids(mem, exps, spl, setl, g) |->
            Get(payer_totals(exps, g), u) - Get(split_totals(exps, spl, g), u)
            + Get(settlement_outgoing(setl, g), u)
            - Get(settlement_incoming(setl, g), u)]

\* the recomputed (uncached) result on the committed rows
Recomputed(g) == ComputeBalances(members, expenses, expense_splits, settlements, g)

(***************************************************************************)
(* The cache around the aggregator (calculate_group_balances, lines 30-42  *)
(* and 159-166).  A cached snapshot is the JSON of the result list; the    *)
(* history field written_at records the number of commits that had         *)
(* happened when the entry was written.                                     *)
(***************************************************************************)
\* str(Decimal) without the sign of a negative amount
DecimalStr_Unsigned(p) ==
    [sign |-> "", units |-> Abs(p) \div 100, cents |-> Abs(p) % 100]

\* str(Decimal), what json.dumps(..., default=str) writes for an amount: the
\* sign, the digits before the point and the two digits after it
DecimalStr(p) ==
    [sign |-> IF p < 0 THEN "-" ELSE "", units |-> Abs(p) \div 100, cents |-> Abs(p) % 100]

\* Decimal(text), what BalanceResponse(**balance) makes of the string
ParseDecimal(text) ==
    (IF text.sign = "-" THEN -1 ELSE 1) * (text.units * 100 + text.cents)

\* json.dumps([balance.dict() for balance in result], default=str)
json_dumps(data) == [u \in DOMAIN data |-> DecimalStr(data[u])]

\* [BalanceResponse(**balance) for balance in json.loads(cached_data)]
json_loads(text) == [u \in DOMAIN text |-> ParseDecimal(text[u])]

\* the expiry r.setex gives a group snapshot, in seconds
GROUP_TTL == 300
\* the expiry r.setex gives a personal aggregate, in seconds
USER_TTL == 120

\* a snapshot stored without an expiry (ttl 0: the key stays until deleted)
GroupEntry_NoExpiry(data) ==
    <<[data |-> json_dumps(data), written_at |-> commit_count, ttl |-> 0]>>

\* r.setex(cache_key, 300, json.dumps(cache_data, default=str))
GroupEntry(data) ==
    <<[data |-> json_dumps(data), written_at |-> commit_count, ttl |-> GROUP_TTL]>>

\* the entry of calculate_user_net_balance: str(total_balance)
UserEntry(total_balance) ==
    <<[data |-> DecimalStr(total_balance), written_at |-> commit_count, ttl |-> USER_TTL]>>

\* r.get(cache_key) followed by `if cached_data:`
CacheHit(r, k) == r[k] # NoEntry

\* The value one whole call of calculate_group_balances returns.
calculate_group_balances(g) ==
    IF CacheHit(redis, GroupKey(g)) THEN json_loads(redis[GroupKey(g)][1].data)
    ELSE Recomputed(g)

\* The Redis state one whole call of calculate_group_balances leaves: a hit
\* and the early return for a group without active members write nothing.
RedisAfterBalances(g) ==
    IF CacheHit(redis, GroupKey(g)) \/ ActiveMembers(members, g) = {} THEN redis
    ELSE [redis EXCEPT ![GroupKey(g)] = GroupEntry(Recomputed(g))]

\* an invalidation that leaves the entry where it is
invalidate_group_balance_cache_Skipped(r, g) == r

invalidate_group_balance_cache(r, g) == Deleted(r, {GroupKey(g)})

invalidate_user_caches_for_group(r, g) ==
    Deleted(r, {DashKey(u) : u \in ActiveMembers(members, g)}
               \cup {OverviewKey(u) : u \in ActiveMembers(members, g)})

\* the two calls every invalidating handler makes after its commit
InvalidateAfterWrite(r, g) ==
    invalidate_user_caches_for_group(invalidate_group_balance_cache(r, g), g)

(***************************************************************************)
(* Request validation shared by the handlers.                              *)
(***************************************************************************)
\* _validate_group_membership: the caller has an active membership row
IsActiveMember(g, u) == members[g][u] = "active"

\* has_group_permission: an active membership whose role grants the
\* permission.  The role manifest (permissions.json) is not part of the
\* sources; every role is taken to grant the group permissions asked for.
has_permission(u, g) == IsActiveMember(g, u)

(***************************************************************************)
(* Split lists of a request.  A list is a function from the users it names *)
(* to an entry: kind "equal" (neither amount nor percentage given),        *)
(* "amount" (amount given, in paise) or "percentage" (percentage given, in *)
(* hundredths of a percent).                                               *)
(***************************************************************************)
Percentages == {5000, 10000}

SplitEntries ==
    {[kind |-> "equal", value |-> 0]}
    \cup {[kind |-> "amount", value |-> v] : v \in 1..MaxAmount}
    \cup {[kind |-> "percentage", value |-> v] : v \in Percentages}

SplitLists ==
    UNION {[S -> SplitEntries] : S \in {T \in SUBSET Users : Cardinality(T) <= MaxSplits}}

\* convert_to_inr: INR is returned as it is; another currency is multiplied
\* by its rate.  Requests of the model are in INR.
convert_to_inr(amount, currency) ==
    IF currency = "INR" THEN amount
    ELSE IF currency = "USD" THEN amount * 83
    ELSE amount

\* abs(total - expected) > Decimal("0.01")
OutOfTolerance(total, expected, tol) == Abs(total - expected) > tol

\* _validate_split_users: every user of the list is an active member
SplitUsersValid(g, splits) == \A u \in DOMAIN splits : IsActiveMember(g, u)

\* _calculate_splits: ok = FALSE when it raises 400, else the stored amount_inr
\* of each split row (the Decimal computed, as the Numeric(10,2) column keeps it)
calculate_splits(amount, splits) ==
    LET S == DOMAIN splits
        has_percentages == \E u \in S : splits[u].kind = "percentage"
        has_amounts == \E u \in S : splits[u].kind = "amount"
        pct(u) == IF splits[u].kind = "percentage" THEN splits[u].value ELSE 0
        amt(u) == IF splits[u].kind = "amount" THEN splits[u].value ELSE 0
    IN  IF has_percentages /\ has_amounts THEN [ok |-> FALSE, rows |-> <<>>]
        ELSE IF has_percentages THEN
            IF OutOfTolerance(Sum([u \in S |-> pct(u)], S), 10000, DUST)
            THEN [ok |-> FALSE, rows |-> <<>>]
            ELSE [ok |-> TRUE,
                  rows |-> [u \in S |-> Quantize(amount * pct(u), 10000)]]
        ELSE IF has_amounts THEN
            IF OutOfTolerance(Sum([u \in S |-> amt(u)], S), amount, DUST)
            THEN [ok |-> FALSE, rows |-> <<>>]
            ELSE [ok |-> TRUE, rows |-> [u \in S |-> amt(u)]]
        ELSE IF S = {} THEN [ok |-> FALSE, rows |-> <<>>]
        ELSE [ok |-> TRUE, rows |-> [u \in S |-> Quantize(amount, Cardinality(S))]]

SplitRows(expense_id, rows) ==
    {[expense_id |-> expense_id, user_id |-> u, amount_inr |-> rows[u]] : u \in DOMAIN rows}

(***************************************************************************)
(* Expense handlers (api/v1/endpoints/expenses.py).  A handler is one      *)
(* action: its checks are the guard (a request that raises leaves the rows *)
(* and the cache as they were: the session is closed without a commit),    *)
(* its effect is the committed rows and the cache invalidation that        *)
(* follows the commit.  The caller matters to these handlers only through  *)
(* the membership checks, so the guard asks for some caller who passes.    *)
(***************************************************************************)
create_expense_status(caller, g, payer, amount, splits) ==
    IF ~has_permission(caller, g) \/ ~IsActiveMember(g, caller) THEN 403
    ELSE IF ~SplitUsersValid(g, splits) THEN 400
    ELSE IF ~calculate_splits(amount, splits).ok THEN 400
    \* CheckConstraint ck_expense_amount_positive fails at the flush
    ELSE IF convert_to_inr(amount, "INR") <= 0 THEN 500
    \* CheckConstraint ck_expense_split_amount_non_negative fails at the flush
    ELSE IF \E u \in DOMAIN splits : calculate_splits(amount, splits).rows[u] < 0 THEN 500
    ELSE 200

NewExpense(g, payer, amount) ==
    [group_id |-> g, payer_id |-> payer, amount_inr |-> convert_to_inr(amount, "INR"),
     deleted |-> FALSE]

CreateExpense(g, payer, amount, splits) ==
    /\ Len(expenses) < MaxExpenses
    /\ \E caller \in Users : create_expense_status(caller, g, payer, amount, splits) = 200
    /\ expenses' = Append(expenses, NewExpense(g, payer, amount))
    /\ expense_splits' = expense_splits
           \cup SplitRows(Len(expenses) + 1, calculate_splits(amount, splits).rows)
    /\ redis' = InvalidateAfterWrite(redis, g)
    /\ UNCHANGED <<group_owner, group_archived, members, settlements,
                   simp, procs, commit_count, acked_count>>

update_expense_status(caller, id, has_splits, splits) ==
    IF id \notin DOMAIN expenses THEN 404
    ELSE IF ~IsActiveMember(expenses[id].group_id, caller) THEN 403
    ELSE IF ~has_permission(caller, expenses[id].group_id) THEN 403
    ELSE IF has_splits /\ ~SplitUsersValid(expenses[id].group_id, splits) THEN 400
    ELSE IF has_splits /\ ~calculate_splits(expenses[id].amount_inr, splits).ok THEN 400
    ELSE 200

\* the split rows update_expense commits: the rows of the expense are deleted
\* and the new ones added when the body carries splits
SplitsAfterUpdate(id, has_splits, splits) ==
    IF has_splits
    THEN {s \in expense_splits : s.expense_id # id}
         \cup SplitRows(id, calculate_splits(expenses[id].amount_inr, splits).rows)
    ELSE expense_splits

UpdateExpense(id, has_splits, splits) ==
    /\ \E caller \in Users : update_expense_status(caller, id, has_splits, splits) = 200
    /\ expense_splits' = SplitsAfterUpdate(id, has_splits, splits)
    /\ redis' = InvalidateAfterWrite(redis, expenses[id].group_id)
    /\ UNCHANGED <<group_owner, group_archived, members, expenses, settlements,
                   simp, procs, commit_count, acked_count>>

delete_expense_status(caller, id) ==
    IF id \notin DOMAIN expenses THEN 404
    ELSE IF ~IsActiveMember(expenses[id].group_id, caller) THEN 403
    ELSE IF ~has_permission(caller, expenses[id].group_id) THEN 403
    ELSE 200

\* expense.deleted_at = datetime.utcnow()
SoftDeleted(exps, id) == [exps EXCEPT ![id].deleted = TRUE]

DeleteExpense(id) ==
    /\ \E caller \in Users : delete_expense_status(caller, id) = 200
    /\ expenses' = SoftDeleted(expenses, id)
    /\ redis' = InvalidateAfterWrite(redis, expenses[id].group_id)
    /\ UNCHANGED <<group_owner, group_archived, members, expense_splits,
                   settlements, simp, procs, commit_count, acked_count>>

(***************************************************************************)
(* Settlement handlers (api/v1/endpoints/settlements.py).                  *)
(***************************************************************************)
Methods == {"cash", "upi"}

create_settlement_status(caller, g, from, to, amount) ==
    IF ~has_permission(caller, g) \/ ~IsActiveMember(g, caller) THEN 403
    ELSE IF from = to THEN 400
    ELSE IF ~IsActiveMember(g, from) \/ ~IsActiveMember(g, to) THEN 400
    \* CheckConstraint ck_settlement_amount_positive fails at the commit
    ELSE IF convert_to_inr(amount, "INR") <= 0 THEN 500
    ELSE 200

NewSettlement(g, from, to, amount, method) ==
    [group_id |-> g, from_user_id |-> from, to_user_id |-> to,
     amount_inr |-> convert_to_inr(amount, "INR"), method |-> method,
     status |-> "pending"]

CreateSettlement(g, from, to, amount, method) ==
    /\ Len(settlements) < MaxSettlements
    /\ \E caller \in Users : create_settlement_status(caller, g, from, to, amount) = 200
    /\ settlements' = Append(settlements, NewSettlement(g, from, to, amount, method))
    /\ redis' = InvalidateAfterWrite(redis, g)
    /\ UNCHANGED <<group_owner, group_archived, members, expenses, expense_splits,
                   simp, procs, commit_count, acked_count>>

\* complete_settlement, cancel_settlement and update_settlement make the
\* same checks: the row exists, the caller is an active member with the
\* permission, the settlement is pending
\* the checks without the one on the status
settlement_transition_status_AnyStatus(caller, id) ==
    IF id \notin DOMAIN settlements THEN 404
    ELSE IF ~IsActiveMember(settlements[id].group_id, caller) THEN 403
    ELSE IF ~has_permission(caller, settlements[id].group_id) THEN 403
    ELSE 200

settlement_transition_status(caller, id) ==
    IF id \notin DOMAIN settlements THEN 404
    ELSE IF ~IsActiveMember(settlements[id].group_id, caller) THEN 403
    ELSE IF ~has_permission(caller, settlements[id].group_id) THEN 403
    ELSE IF settlements[id].status # "pending" THEN 400
    ELSE 200

WithStatus(setl, id, status) == [setl EXCEPT ![id].status = status]

CompleteSettlement(id) ==
    /\ \E caller \in Users : settlement_transition_status(caller, id) = 200
    /\ settlements' = WithStatus(settlements, id, "completed")
    /\ redis' = InvalidateAfterWrite(redis, settlements[id].group_id)
    /\ UNCHANGED <<group_owner, group_archived, members, expenses, expense_splits,
                   simp, procs, commit_count, acked_count>>

\* cancel_settlement commits and answers; it calls no cache invalidation
CancelSettlement(id) ==
    /\ \E caller \in Users : settlement_transition_status(caller, id) = 200
    /\ settlements' = WithStatus(settlements, id, "cancelled")
    /\ UNCHANGED <<group_owner, group_archived, members, expenses, expense_splits,
                   redis, simp, procs, commit_count, acked_count>>

\* update_settlement: notes and method of a pending settlement, no invalidation
UpdateSettlement(id, method) ==
    /\ \E caller \in Users : settlement_transition_status(caller, id) = 200
    /\ settlements' = [settlements EXCEPT ![id].method = method]
    /\ UNCHANGED <<group_owner, group_archived, members, expenses, expense_splits,
                   redis, simp, procs, commit_count, acked_count>>

(***************************************************************************)
(* Membership handlers (api/v1/endpoints/groups.py).  Both read the        *)
(* balances through calculate_group_balances, cache included, and that     *)
(* call may write the cache, whatever the handler answers.                 *)
(***************************************************************************)
\* next((b for b in balances if b.user_id == u), None) and balance_inr != 0
HasDues(balances, u) == u \in DOMAIN balances /\ balances[u] # 0

\* remove_member raises its 409 inside `try: ... except Exception: pass`,
\* which catches it: the dues check never stops the removal
remove_member_status(caller, g, u) ==
    IF group_owner[g] # caller THEN 403
    ELSE IF group_owner[g] = u THEN 403
    ELSE 200

RemoveMember(caller, g, u) ==
    /\ remove_member_status(caller, g, u) = 200
    /\ members' = [members EXCEPT ![g][u] = "removed"]
    /\ redis' = RedisAfterBalances(g)
    /\ UNCHANGED <<group_owner, group_archived, expenses, expense_splits,
                   settlements, simp, procs, commit_count, acked_count>>

OtherActive(g, u) == ActiveMembers(members, g) \ {u}

\* leave_group without a body (no transfer_to)
leave_group_status(caller, g) ==
    IF HasDues(calculate_group_balances(g), caller) THEN 409
    \* OWNER_MUST_TRANSFER
    ELSE IF group_owner[g] = caller /\ OtherActive(g, caller) # {} THEN 409
    ELSE 200

LeaveGroup(caller, g) ==
    /\ redis' = RedisAfterBalances(g)
    /\ IF leave_group_status(caller, g) # 200
       THEN UNCHANGED <<group_archived, members>>
       ELSE IF group_owner[g] = caller
       \* the owner is the last active member: the group is archived
       THEN /\ group_archived' = [group_archived EXCEPT ![g] = TRUE]
            /\ members' = [members EXCEPT ![g] = [u \in Users |-> "removed"]]
       ELSE /\ members' = [members EXCEPT ![g][caller] = "left"]
            /\ UNCHANGED group_archived
    /\ UNCHANGED <<group_owner, expenses, expense_splits, settlements,
                   simp, procs, commit_count, acked_count>>

(***************************************************************************)
(* Read endpoint (api/v1/endpoints/balances.py): get_group_balances.       *)
(***************************************************************************)
get_group_balances_status(caller, g) ==
    IF ~has_permission(caller, g) \/ ~IsActiveMember(g, caller) THEN 403 ELSE 200

GetGroupBalances(g) ==
    /\ \E caller \in Users : get_group_balances_status(caller, g) = 200
    /\ redis' = RedisAfterBalances(g)
    /\ UNCHANGED <<group_owner, group_archived, members, expenses, expense_splits,
                   settlements, simp, procs, commit_count, acked_count>>

(***************************************************************************)
(* Debt Simplifier: simplify_debts (services/balance.py, lines 171-211).   *)
(* A balance list is a sequence of [user_id, balance_inr]; the loop is     *)
(* walked one iteration per step.  Indices count from 1.                   *)
(***************************************************************************)
SimplifyIdle ==
    [pc |-> "idle", balances |-> <<>>, creditors |-> <<>>, debtors |-> <<>>,
     i |-> 1, j |-> 1, simplified_debts |-> <<>>, iters |-> 0]

RECURSIVE InsertDesc(_, _)
\* e goes behind every entry whose amount is not smaller: equal amounts
\* keep the order they had
InsertDesc(e, sorted) ==
    IF sorted = <<>> THEN <<e>>
    ELSE IF Head(sorted).amount >= e.amount THEN <<Head(sorted)>> \o InsertDesc(e, Tail(sorted))
    ELSE <<e>> \o sorted

\* a list left in the order of the input
SortDesc_Unsorted(s) == s

RECURSIVE SortDesc(_)
\* list.sort(key=lambda x: x[2], reverse=True): stable, largest first
SortDesc(s) ==
    IF s = <<>> THEN <<>>
    ELSE InsertDesc(s[Len(s)], SortDesc(SubSeq(s, 1, Len(s) - 1)))

IsCreditor(b) == b.balance_inr > 0
IsDebtor(b) == b.balance_inr < 0

Creditors(balances) ==
    LET picked == SelectSeq(balances, IsCreditor)
    IN SortDesc([k \in DOMAIN picked |->
                   [user_id |-> picked[k].user_id, amount |-> picked[k].balance_inr]])

Debtors(balances) ==
    LET picked == SelectSeq(balances, IsDebtor)
    IN SortDesc([k \in DOMAIN picked |->
                   [user_id |-> picked[k].user_id, amount |-> -picked[k].balance_inr]])

\* a threshold that lets every matched amount through
Significant_Always(amount) == amount >= 0

\* amount > Decimal("0.01")
Significant(amount) == amount > DUST

\* a remaining amount that is never reduced
Remaining_NotReduced(left, amount) == left

\* creditor_amount - amount, debtor_amount - amount
Remaining(left, amount) == left - amount

\* creditors[i][2] <= Decimal("0.01")
Settled(left) == left <= DUST

DebtSimplification(debtor, creditor, amount) ==
    [from_user_id |-> debtor.user_id, to_user_id |-> creditor.user_id, amount |-> amount]

LoopCondition(sd) == sd.i <= Len(sd.creditors) /\ sd.j <= Len(sd.debtors)

\* one iteration of the while loop
Iteration(sd) ==
    LET creditor == sd.creditors[sd.i]
        debtor == sd.debtors[sd.j]
        amount == Min(creditor.amount, debtor.amount)
        creditor_left == Remaining(creditor.amount, amount)
        debtor_left == Remaining(debtor.amount, amount)
    IN [sd EXCEPT
          !.simplified_debts =
              IF Significant(amount)
              THEN Append(@, DebtSimplification(debtor, creditor, amount))
              ELSE @,
          !.creditors[sd.i].amount = creditor_left,
          !.debtors[sd.j].amount = debtor_left,
          !.i = IF Settled(creditor_left) THEN @ + 1 ELSE @,
          !.j = IF Settled(debtor_left) THEN @ + 1 ELSE @,
          !.iters = @ + 1]

RECURSIVE RunLoop(_)
\* the while loop run to its end (at most MaxIter iterations)
RunLoop(sd) ==
    IF LoopCondition(sd) /\ sd.iters < MaxIter THEN RunLoop(Iteration(sd)) ELSE sd

\* simplify_debts as a function of its argument
simplify_debts(balances) ==
    RunLoop([SimplifyIdle EXCEPT !.balances = balances,
                                 !.creditors = Creditors(balances),
                                 !.debtors = Debtors(balances)]).simplified_debts

SimplifyStart ==
    /\ simp.pc = "start"
    /\ simp' = [simp EXCEPT !.pc = "loop",
                            !.creditors = Creditors(simp.balances),
                            !.debtors = Debtors(simp.balances)]
    /\ UNCHANGED <<db, redis, procs, commit_count, acked_count>>

SimplifyStep ==
    /\ simp.pc = "loop"
    /\ LoopCondition(simp)
    /\ simp.iters < MaxIter
    /\ simp' = Iteration(simp)
    /\ UNCHANGED <<db, redis, procs, commit_count, acked_count>>

SimplifyReturn ==
    /\ simp.pc = "loop"
    /\ ~LoopCondition(simp)
    /\ simp' = [simp EXCEPT !.pc = "done"]
    /\ UNCHANGED <<db, redis, procs, commit_count, acked_count>>

(***************************************************************************)
(* Initial state: one group owned by "a" with three active members and no  *)
(* rows, and an empty cache.                                               *)
(***************************************************************************)
Init ==
    /\ group_owner = [g \in Groups |-> "a"]
    /\ group_archived = [g \in Groups |-> FALSE]
    /\ members = [g \in Groups |-> [u \in Users |-> "active"]]
    /\ expenses = <<>>
    /\ expense_splits = {}
    /\ settlements = <<>>
    /\ redis = [k \in Keys |-> NoEntry]
    /\ simp = SimplifyIdle
    /\ procs = <<>>
    /\ commit_count = 0
    /\ acked_count = 0

(***************************************************************************)
(* Sequential specification: the handlers run one request at a time.       *)
(***************************************************************************)
Next ==
    \/ \E g \in Groups, p \in Users, a \in 1..MaxAmount, sp \in SplitLists :
           CreateExpense(g, p, a, sp)
    \/ \E id \in 1..MaxExpenses, sp \in SplitLists : UpdateExpense(id, TRUE, sp)
    \/ \E id \in 1..MaxExpenses : UpdateExpense(id, FALSE, <<>>)
    \/ \E id \in 1..MaxExpenses : DeleteExpense(id)
    \/ \E g \in Groups, f \in Users, t \in Users, a \in 1..MaxAmount :
           CreateSettlement(g, f, t, a, "cash")
    \/ \E id \in 1..MaxSettlements : CompleteSettlement(id)
    \/ \E id \in 1..MaxSettlements : CancelSettlement(id)
    \/ \E id \in 1..MaxSettlements, m \in Methods : UpdateSettlement(id, m)
    \/ \E c \in Users, g \in Groups, u \in Users : RemoveMember(c, g, u)
    \/ \E c \in Users, g \in Groups : LeaveGroup(c, g)
    \/ \E g \in Groups : GetGroupBalances(g)

Spec == Init /\ [][Next]_vars

(***************************************************************************)
(* Specification of the simplifier alone: the call starts on any balance   *)
(* list within the bounds; the user of an entry is its position.           *)
(***************************************************************************)
BalanceLists ==
    UNION {[1..n -> -MaxBalance..MaxBalance] : n \in 0..MaxLen}

AsBalances(amounts) ==
    [k \in DOMAIN amounts |-> [user_id |-> ToString(k), balance_inr |-> amounts[k]]]

\* calculate_group_balances builds its result list by iterating all_user_ids,
\* a Python set: the list comes in some order of the users
Orderings(S) ==
    {f \in [1..Cardinality(S) -> S] : \A i, j \in 1..Cardinality(S) : f[i] = f[j] => i = j}

ResultList(bal, order) ==
    [k \in DOMAIN order |-> [user_id |-> order[k], balance_inr |-> bal[order[k]]]]

ResultLists(bal) == {ResultList(bal, order) : order \in Orderings(DOMAIN bal)}

\* The rows of the worked scenario: all of a, b, c active in g1, one expense
\* of 300.00 paid by a and split equally, then a completed settlement of
\* 100.00 from b to a
ScenarioMembers == [g \in Groups |-> [u \in Users |-> "active"]]

ScenarioExpenses == <<NewExpense("g1", "a", 300 * 100)>>

ScenarioSplits ==
    SplitRows(1, calculate_splits(300 * 100, [u \in Users |-> [kind |-> "equal", value |-> 0]]).rows)

ScenarioSettlements ==
    WithStatus(<<NewSettlement("g1", "b", "a", 100 * 100, "cash")>>, 1, "completed")

ScenarioBalancesBefore ==
    ComputeBalances(ScenarioMembers, ScenarioExpenses, ScenarioSplits, <<>>, "g1")

ScenarioBalancesAfter ==
    ComputeBalances(ScenarioMembers, ScenarioExpenses, ScenarioSplits, ScenarioSettlements, "g1")

SimplifyInputs ==
    {AsBalances(amounts) : amounts \in BalanceLists}
        \cup ResultLists(ScenarioBalancesBefore) \cup ResultLists(ScenarioBalancesAfter)

InitSimplify ==
    /\ group_owner = [g \in Groups |-> "a"]
    /\ group_archived = [g \in Groups |-> FALSE]
    /\ members = [g \in Groups |-> [u \in Users |-> "active"]]
    /\ expenses = <<>>
    /\ expense_splits = {}
    /\ settlements = <<>>
    /\ redis = [k \in Keys |-> NoEntry]
    /\ procs = <<>>
    /\ commit_count = 0
    /\ acked_count = 0
    /\ \E balances \in SimplifyInputs :
           simp = [SimplifyIdle EXCEPT !.pc = "start", !.balances = balances]

NextSimplify == SimplifyStart \/ SimplifyStep \/ SimplifyReturn

SpecSimplify == InitSimplify /\ [][NextSimplify]_vars

\* a call that has started is run to its return
SpecSimplifyFair == SpecSimplify /\ WF_vars(NextSimplify)

(***************************************************************************)
(* Request specification: a client posts expenses whose body is anything   *)
(* the schema ExpenseCreateRequest admits (it has no validator: the amount *)
(* and the split amounts may be zero or negative) and reads the balances.  *)
(* procs holds the last request with the status of its response.  A        *)
(* request that raises changes no row and no cache entry: get_db closes    *)
(* the session without a commit, and the invalidation follows the commit.  *)
(***************************************************************************)
RequestAmounts == -MaxAmount..MaxAmount

RequestSplitEntries ==
    {[kind |-> "equal", value |-> 0]}
    \cup {[kind |-> "amount", value |-> v] : v \in RequestAmounts}

RequestSplitLists ==
    UNION {[S -> RequestSplitEntries] : S \in {T \in SUBSET Users : Cardinality(T) <= MaxSplits}}

Response(op, status, amount, splits) ==
    <<[op |-> op, status |-> status, amount |-> amount, splits |-> splits]>>

RequestCreateExpense(caller, g, payer, amount, splits) ==
    LET status == create_expense_status(caller, g, payer, amount, splits)
    IN  /\ status = 200 => Len(expenses) < MaxExpenses
        /\ procs' = Response("create_expense", status, amount, splits)
        /\ IF status = 200
           THEN /\ expenses' = Append(expenses, NewExpense(g, payer, amount))
                /\ expense_splits' = expense_splits
                       \cup SplitRows(Len(expenses) + 1, calculate_splits(amount, splits).rows)
                /\ redis' = InvalidateAfterWrite(redis, g)
           ELSE UNCHANGED <<expenses, expense_splits, redis>>
        /\ UNCHANGED <<group_owner, group_archived, members, settlements,
                       simp, commit_count, acked_count>>

RequestGroupBalances(caller, g) ==
    /\ has_permission(caller, g)
    /\ IsActiveMember(g, caller)
    /\ redis' = RedisAfterBalances(g)
    /\ procs' = Response("get_group_balances", 200, 0, <<>>)
    /\ UNCHANGED <<db, simp, commit_count, acked_count>>

\* the client is the owner of the group and pays the expenses it posts
NextRequests ==
    \/ \E g \in Groups, a \in RequestAmounts, sp \in RequestSplitLists :
           RequestCreateExpense(group_owner[g], g, group_owner[g], a, sp)
    \/ \E g \in Groups : RequestGroupBalances(group_owner[g], g)

SpecRequests == Init /\ [][NextRequests]_vars

(***************************************************************************)
(* Concurrent requests.  A worker serves one request at a time, one step   *)
(* per database transaction or Redis command.  A writing handler commits,  *)
(* calls invalidate_group_balance_cache, calls                             *)
(* invalidate_user_caches_for_group and returns its response; a reading    *)
(* call does r.get, on a miss its queries, r.setex, and returns.  The      *)
(* queries of one call are taken as one snapshot of the committed rows,    *)
(* and every Redis command is taken to succeed (the code swallows a Redis  *)
(* error and goes on).                                                     *)
(***************************************************************************)
Writers == {"w1"}
Readers == {"r1", "r2"}
Workers == Writers \cup Readers

\* users whose personal aggregate is asked for
NetBalanceUsers == {"a"}

\* split lists of the requests the writers send
RequestSplits == {sp \in SplitLists : DOMAIN sp \in {{"b"}, {"a", "b"}}
                                      /\ \A u \in DOMAIN sp : sp[u].kind = "equal"}

IdleWorker ==
    [pc |-> "idle", op |-> "none", group_id |-> "none", user_id |-> "none",
     commit_no |-> 0, started_at |-> 0, affected |-> {}, result |-> <<>>]

\* the worker after its commit: commit_no numbers the transaction, affected
\* are the users whose balance the committed rows change
Committed(op, g, affected) ==
    [IdleWorker EXCEPT !.pc = "committed", !.op = op, !.group_id = g,
                       !.commit_no = commit_count + 1, !.affected = affected]

SplitUsers(id) == {s.user_id : s \in {x \in expense_splits : x.expense_id = id}}

CommitCreateExpense(w, g, payer, amount, splits) ==
    /\ procs[w].pc = "idle"
    /\ commit_count < MaxCommits
    /\ Len(expenses) < MaxExpenses
    /\ \E caller \in Users : create_expense_status(caller, g, payer, amount, splits) = 200
    /\ expenses' = Append(expenses, NewExpense(g, payer, amount))
    /\ expense_splits' = expense_splits
           \cup SplitRows(Len(expenses) + 1, calculate_splits(amount, splits).rows)
    /\ commit_count' = commit_count + 1
    /\ procs' = [procs EXCEPT ![w] =
                   Committed("create_expense", g, {payer} \cup DOMAIN splits)]
    /\ UNCHANGED <<group_owner, group_archived, members, settlements, redis,
                   simp, acked_count>>

CommitUpdateExpense(w, id, splits) ==
    /\ procs[w].pc = "idle"
    /\ commit_count < MaxCommits
    /\ \E caller \in Users : update_expense_status(caller, id, TRUE, splits) = 200
    /\ expense_splits' = SplitsAfterUpdate(id, TRUE, splits)
    /\ commit_count' = commit_count + 1
    /\ procs' = [procs EXCEPT ![w] =
                   Committed("update_expense", expenses[id].group_id,
                             SplitUsers(id) \cup DOMAIN splits)]
    /\ UNCHANGED <<group_owner, group_archived, members, expenses, settlements,
                   redis, simp, acked_count>>

CommitDeleteExpense(w, id) ==
    /\ procs[w].pc = "idle"
    /\ commit_count < MaxCommits
    /\ \E caller \in Users : delete_expense_status(caller, id) = 200
    /\ expenses' = SoftDeleted(expenses, id)
    /\ commit_count' = commit_count + 1
    /\ procs' = [procs EXCEPT ![w] =
                   Committed("delete_expense", expenses[id].group_id,
                             {expenses[id].payer_id} \cup SplitUsers(id))]
    /\ UNCHANGED <<group_owner, group_archived, members, expense_splits,
                   settlements, redis, simp, acked_count>>

CommitCreateSettlement(w, g, from, to, amount) ==
    /\ procs[w].pc = "idle"
    /\ commit_count < MaxCommits
    /\ Len(settlements) < MaxSettlements
    /\ \E caller \in Users : create_settlement_status(caller, g, from, to, amount) = 200
    /\ settlements' = Append(settlements, NewSettlement(g, from, to, amount, "cash"))
    /\ commit_count' = commit_count + 1
    /\ procs' = [procs EXCEPT ![w] = Committed("create_settlement", g, {})]
    /\ UNCHANGED <<group_owner, group_archived, members, expenses, expense_splits,
                   redis, simp, acked_count>>

CommitCompleteSettlement(w, id) ==
    /\ procs[w].pc = "idle"
    /\ commit_count < MaxCommits
    /\ \E caller \in Users : settlement_transition_status(caller, id) = 200
    /\ settlements' = WithStatus(settlements, id, "completed")
    /\ commit_count' = commit_count + 1
    /\ procs' = [procs EXCEPT ![w] =
                   Committed("complete_settlement", settlements[id].group_id,
                             {settlements[id].from_user_id, settlements[id].to_user_id})]
    /\ UNCHANGED <<group_owner, group_archived, members, expenses, expense_splits,
                   redis, simp, acked_count>>

\* invalidate_group_balance_cache(group_id), the call after db.commit()
InvalidateGroup(w) ==
    /\ procs[w].pc = "committed"
    /\ redis' = invalidate_group_balance_cache(redis, procs[w].group_id)
    /\ procs' = [procs EXCEPT ![w].pc = "group_invalidated"]
    /\ UNCHANGED <<db, simp, commit_count, acked_count>>

\* invalidate_user_caches_for_group(db, group_id), the call after it
InvalidateUserCaches(w) ==
    /\ procs[w].pc = "group_invalidated"
    /\ redis' = invalidate_user_caches_for_group(redis, procs[w].group_id)
    /\ procs' = [procs EXCEPT ![w].pc = "respond"]
    /\ UNCHANGED <<db, simp, commit_count, acked_count>>

\* the handler returns: the write is acknowledged
Respond(w) ==
    /\ procs[w].pc = "respond"
    /\ acked_count' = IF procs[w].commit_no > acked_count THEN procs[w].commit_no
                      ELSE acked_count
    /\ procs' = [procs EXCEPT ![w] = IdleWorker]
    /\ UNCHANGED <<db, redis, simp, commit_count>>

\* the sums taken over every group, whatever the membership
UserNetBalance_AllGroups(mem, exps, spl, setl, u) ==
    LET group_ids == DOMAIN mem
        live == {id \in DOMAIN exps : ~exps[id].deleted /\ exps[id].group_id \in group_ids}
        done == {id \in DOMAIN setl : setl[id].status = "completed"
                                      /\ setl[id].group_id \in group_ids}
        paid == {id \in live : exps[id].payer_id = u}
        owed == {x \in spl : x.user_id = u /\ x.expense_id \in live}
        sent == {id \in done : setl[id].from_user_id = u}
        received == {id \in done : setl[id].to_user_id = u}
    IN  IF group_ids = {} THEN 0
        ELSE Sum([id \in paid |-> exps[id].amount_inr], paid)
             - Sum([x \in owed |-> x.amount_inr], owed)
             + Sum([id \in sent |-> setl[id].amount_inr], sent)
             - Sum([id \in received |-> setl[id].amount_inr], received)

\* calculate_user_net_balance without its cache: the sums over the groups
\* where the user has an active membership
UserNetBalance(mem, exps, spl, setl, u) ==
    LET group_ids == {g \in DOMAIN mem : mem[g][u] = "active"}
        live == {id \in DOMAIN exps : ~exps[id].deleted /\ exps[id].group_id \in group_ids}
        done == {id \in DOMAIN setl : setl[id].status = "completed"
                                      /\ setl[id].group_id \in group_ids}
        paid == {id \in live : exps[id].payer_id = u}
        owed == {x \in spl : x.user_id = u /\ x.expense_id \in live}
        sent == {id \in done : setl[id].from_user_id = u}
        received == {id \in done : setl[id].to_user_id = u}
    IN  IF group_ids = {} THEN 0
        ELSE Sum([id \in paid |-> exps[id].amount_inr], paid)
             - Sum([x \in owed |-> x.amount_inr], owed)
             + Sum([id \in sent |-> setl[id].amount_inr], sent)
             - Sum([id \in received |-> setl[id].amount_inr], received)

\* r.get(cache_key) of calculate_group_balances: a hit is returned as it is
BalancesGet(r, g) ==
    /\ procs[r].pc = "idle"
    /\ \E caller \in Users : get_group_balances_status(caller, g) = 200
    /\ procs' = [procs EXCEPT ![r] =
                   [IdleWorker EXCEPT
                      !.op = "calculate_group_balances", !.group_id = g,
                      !.started_at = acked_count,
                      !.pc = IF CacheHit(redis, GroupKey(g)) THEN "return" ELSE "query",
                      !.result = IF CacheHit(redis, GroupKey(g))
                                 THEN <<json_loads(redis[GroupKey(g)][1].data)>>
                                 ELSE <<>>]]
    /\ UNCHANGED <<db, redis, simp, commit_count, acked_count>>

\* the queries of calculate_group_balances; without active members it
\* returns at once and writes no entry
BalancesQuery(r) ==
    /\ procs[r].pc = "query"
    /\ procs[r].op = "calculate_group_balances"
    /\ procs' = [procs EXCEPT
                   ![r].result = <<Recomputed(procs[r].group_id)>>,
                   ![r].pc = IF ActiveMembers(members, procs[r].group_id) = {}
                             THEN "return" ELSE "setex"]
    /\ UNCHANGED <<db, redis, simp, commit_count, acked_count>>

\* r.setex(cache_key, 300, json.dumps(cache_data))
BalancesSetex(r) ==
    /\ procs[r].pc = "setex"
    /\ procs[r].op = "calculate_group_balances"
    /\ redis' = [redis EXCEPT ![GroupKey(procs[r].group_id)] = GroupEntry(procs[r].result[1])]
    /\ procs' = [procs EXCEPT ![r].pc = "return"]
    /\ UNCHANGED <<db, simp, commit_count, acked_count>>

\* r.get(cache_key) of calculate_user_net_balance
NetBalanceGet(r, u) ==
    /\ procs[r].pc = "idle"
    /\ procs' = [procs EXCEPT ![r] =
                   [IdleWorker EXCEPT
                      !.op = "calculate_user_net_balance", !.user_id = u,
                      !.started_at = acked_count,
                      !.pc = IF CacheHit(redis, UserKey(u)) THEN "return" ELSE "query",
                      !.result = IF CacheHit(redis, UserKey(u))
                                 THEN <<ParseDecimal(redis[UserKey(u)][1].data)>>
                                 ELSE <<>>]]
    /\ UNCHANGED <<db, redis, simp, commit_count, acked_count>>

\* the queries of calculate_user_net_balance; without an active membership
\* it returns 0 and writes no entry
NetBalanceQuery(r) ==
    /\ procs[r].pc = "query"
    /\ procs[r].op = "calculate_user_net_balance"
    /\ procs' = [procs EXCEPT
                   ![r].result = <<UserNetBalance(members, expenses, expense_splits,
                                                  settlements, procs[r].user_id)>>,
                   ![r].pc = IF \A g \in Groups : members[g][procs[r].user_id] # "active"
                             THEN "return" ELSE "setex"]
    /\ UNCHANGED <<db, redis, simp, commit_count, acked_count>>

\* r.setex(cache_key, 120, str(total_balance))
NetBalanceSetex(r) ==
    /\ procs[r].pc = "setex"
    /\ procs[r].op = "calculate_user_net_balance"
    /\ redis' = [redis EXCEPT ![UserKey(procs[r].user_id)] = UserEntry(procs[r].result[1])]
    /\ procs' = [procs EXCEPT ![r].pc = "return"]
    /\ UNCHANGED <<db, simp, commit_count, acked_count>>

\* the call returns its result
Return(r) ==
    /\ procs[r].pc = "return"
    /\ procs' = [procs EXCEPT ![r] = IdleWorker]
    /\ UNCHANGED <<db, redis, simp, commit_count, acked_count>>

\* the time to live of an entry (300 s or 120 s) runs out
Expire(k) ==
    /\ redis[k] # NoEntry
    /\ redis[k][1].ttl > 0
    /\ redis' = [redis EXCEPT ![k] = NoEntry]
    /\ UNCHANGED <<db, simp, procs, commit_count, acked_count>>

InitConc ==
    /\ group_owner = [g \in Groups |-> "a"]
    /\ group_archived = [g \in Groups |-> FALSE]
    /\ members = [g \in Groups |-> [u \in Users |-> "active"]]
    /\ expenses = <<>>
    /\ expense_splits = {}
    /\ settlements = <<>>
    /\ redis = [k \in Keys |-> NoEntry]
    /\ simp = SimplifyIdle
    /\ procs = [w \in Workers |-> IdleWorker]
    /\ commit_count = 0
    /\ acked_count = 0

NextConc ==
    \/ \E w \in Writers, g \in Groups, a \in 1..MaxAmount, sp \in RequestSplits :
           CommitCreateExpense(w, g, "a", a, sp)
    \/ \E w \in Writers, id \in 1..MaxExpenses, sp \in RequestSplits :
           CommitUpdateExpense(w, id, sp)
    \/ \E w \in Writers, id \in 1..MaxExpenses : CommitDeleteExpense(w, id)
    \/ \E w \in Writers, g \in Groups, a \in 1..MaxAmount :
           CommitCreateSettlement(w, g, "b", "a", a)
    \/ \E w \in Writers, id \in 1..MaxSettlements : CommitCompleteSettlement(w, id)
    \/ \E w \in Writers : InvalidateGroup(w)
    \/ \E w \in Writers : InvalidateUserCaches(w)
    \/ \E w \in Writers : Respond(w)
    \/ \E r \in Readers, g \in Groups : BalancesGet(r, g)
    \/ \E r \in Readers : BalancesQuery(r)
    \/ \E r \in Readers : BalancesSetex(r)
    \/ \E r \in Readers, u \in NetBalanceUsers : NetBalanceGet(r, u)
    \/ \E r \in Readers : NetBalanceQuery(r)
    \/ \E r \in Readers : NetBalanceSetex(r)
    \/ \E r \in Readers : Return(r)
    \/ \E k \in Keys : Expire(k)

SpecConc == InitConc /\ [][NextConc]_vars

\* Redis evicts a key once its time to live has run out
SpecConcFair == SpecConc /\ \A k \in Keys : WF_vars(Expire(k))

\* leave_group served next to the concurrent requests: its balance check is
\* the cached call of calculate_group_balances
NextLeave ==
    \/ \E w \in Writers, g \in Groups, a \in 1..MaxAmount, sp \in RequestSplits :
           CommitCreateExpense(w, g, "a", a, sp)
    \/ \E w \in Writers, id \in 1..MaxExpenses : CommitDeleteExpense(w, id)
    \/ \E w \in Writers : InvalidateGroup(w)
    \/ \E w \in Writers : InvalidateUserCaches(w)
    \/ \E w \in Writers : Respond(w)
    \/ \E r \in Readers, g \in Groups : BalancesGet(r, g)
    \/ \E r \in Readers : BalancesQuery(r)
    \/ \E r \in Readers : BalancesSetex(r)
    \/ \E r \in Readers : Return(r)
    \/ \E c \in Users, g \in Groups : LeaveGroup(c, g)

SpecLeave == InitConc /\ [][NextLeave]_vars

(***************************************************************************)
(* A ledger over two groups: the handlers that write expenses, settlements *)
(* and memberships, run one request at a time on the groups g1 and g2 with *)
(* the same three users.  calculate_user_net_balance sums over the groups  *)
(* of a user; calculate_group_balances looks at one group.                 *)
(***************************************************************************)
LedgerGroups == {"g1", "g2"}

LedgerKeys == {GroupKey(g) : g \in LedgerGroups} \cup Keys

InitLedger ==
    /\ group_owner = [g \in LedgerGroups |-> "a"]
    /\ group_archived = [g \in LedgerGroups |-> FALSE]
    /\ members = [g \in LedgerGroups |-> [u \in Users |-> "active"]]
    /\ expenses = <<>>
    /\ expense_splits = {}
    /\ settlements = <<>>
    /\ redis = [k \in LedgerKeys |-> NoEntry]
    /\ simp = SimplifyIdle
    /\ procs = <<>>
    /\ commit_count = 0
    /\ acked_count = 0

NextLedger ==
    \/ \E g \in LedgerGroups, p \in Users, a \in 1..MaxAmount, sp \in RequestSplits :
           CreateExpense(g, p, a, sp)
    \/ \E id \in 1..MaxExpenses : DeleteExpense(id)
    \/ \E g \in LedgerGroups, f \in Users, t \in Users, a \in 1..MaxAmount :
           CreateSettlement(g, f, t, a, "cash")
    \/ \E id \in 1..MaxSettlements : CompleteSettlement(id)
    \/ \E id \in 1..MaxSettlements : CancelSettlement(id)
    \/ \E c \in Users, g \in LedgerGroups, u \in Users : RemoveMember(c, g, u)
    \/ \E c \in Users, g \in LedgerGroups : LeaveGroup(c, g)

SpecLedger == InitLedger /\ [][NextLedger]_vars

(***************************************************************************)
(* Concurrent status changes of a settlement.  complete_settlement and     *)
(* cancel_settlement load the row, make their checks on the status they    *)
(* loaded, and later set the status and commit: the query takes no lock    *)
(* and the UPDATE carries no condition on the status, so the commit of a   *)
(* handler that loaded a pending row succeeds whatever was committed in    *)
(* between.  complete_settlement then makes the two invalidation calls,    *)
(* cancel_settlement makes none.                                           *)
(***************************************************************************)
Handlers == {"h1", "h2"}
SettleReaders == {"r1"}

TransitionOps == {"complete_settlement", "cancel_settlement"}

TargetStatus(op) == IF op = "complete_settlement" THEN "completed" ELSE "cancelled"

\* db.query(Settlement).filter(...).first() and the checks on the loaded row
TransitionLoad(h, op, id) ==
    /\ procs[h].pc = "idle"
    /\ \E caller \in Users : settlement_transition_status(caller, id) = 200
    /\ procs' = [procs EXCEPT ![h] =
                   [IdleWorker EXCEPT !.pc = "loaded", !.op = op,
                                      !.group_id = settlements[id].group_id,
                                      !.result = <<id>>]]
    /\ UNCHANGED <<db, redis, simp, commit_count, acked_count>>

\* settlement.status = ...; db.commit()
TransitionCommit(h) ==
    /\ procs[h].pc = "loaded"
    /\ LET id == procs[h].result[1]
           after == Committed(procs[h].op, procs[h].group_id,
                              {settlements[id].from_user_id, settlements[id].to_user_id})
       IN  /\ settlements' = WithStatus(settlements, id, TargetStatus(procs[h].op))
           /\ procs' = [procs EXCEPT ![h] =
                          IF procs[h].op = "complete_settlement" THEN after
                          ELSE [after EXCEPT !.pc = "respond"]]
    /\ commit_count' = commit_count + 1
    /\ UNCHANGED <<group_owner, group_archived, members, expenses, expense_splits,
                   redis, simp, acked_count>>

InitSettle ==
    /\ group_owner = [g \in Groups |-> "a"]
    /\ group_archived = [g \in Groups |-> FALSE]
    /\ members = [g \in Groups |-> [u \in Users |-> "active"]]
    /\ expenses = <<>>
    /\ expense_splits = {}
    /\ settlements = <<>>
    /\ redis = [k \in Keys |-> NoEntry]
    /\ simp = SimplifyIdle
    /\ procs = [w \in Handlers \cup SettleReaders |-> IdleWorker]
    /\ commit_count = 0
    /\ acked_count = 0

NextSettle ==
    \/ \E h \in Handlers, g \in Groups, a \in 1..MaxAmount :
           CommitCreateSettlement(h, g, "b", "a", a)
    \/ \E h \in Handlers, op \in TransitionOps, id \in 1..MaxSettlements :
           TransitionLoad(h, op, id)
    \/ \E h \in Handlers : TransitionCommit(h)
    \/ \E h \in Handlers : InvalidateGroup(h)
    \/ \E h \in Handlers : InvalidateUserCaches(h)
    \/ \E h \in Handlers : Respond(h)
    \/ \E r \in SettleReaders, g \in Groups : BalancesGet(r, g)
    \/ \E r \in SettleReaders : BalancesQuery(r)
    \/ \E r \in SettleReaders : BalancesSetex(r)
    \/ \E r \in SettleReaders : Return(r)

SpecSettle == InitSettle /\ [][NextSettle]_vars

(***************************************************************************)
(* Properties of the aggregator over the rows the handlers commit.         *)
(***************************************************************************)
\* the balance of u in a result, 0 for a user the result does not list
BalanceOf(balances, u) == Get(balances, u)

SumOfBalances(balances) == Sum(balances, DOMAIN balances)

\* u is the payer of a non-deleted expense, the user of a split of one, or a
\* party to a completed settlement of g
HasActivity(g, u) ==
    \/ \E i \in LiveExpenses(expenses, g) : expenses[i].payer_id = u
    \/ \E s \in LiveSplits(expenses, expense_splits, g) : s.user_id = u
    \/ \E i \in CompletedSettlements(settlements, g) :
           settlements[i].from_user_id = u \/ settlements[i].to_user_id = u

\* total paid - total split share + completed sent - completed received
LedgerBalance(g, u) ==
    Get(payer_totals(expenses, g), u) - Get(split_totals(expenses, expense_splits, g), u)
    + Get(settlement_outgoing(settlements, g), u)
    - Get(settlement_incoming(settlements, g), u)

\* C1: Zero-sum.  For the rows of every group the handlers can leave, the
\* balance_inr values of the recomputed result sum to exactly zero.
C1_ZeroSum == \A g \in Groups : SumOfBalances(Recomputed(g)) = 0

\* C3: Settlement-neutrality.  In a step in which a settlement from A to B of
\* amount X becomes completed, the recomputed balance of A grows by X, the
\* one of B shrinks by X and every other balance stays as it was.
C3_SettlementNeutrality ==
    [][\A id \in DOMAIN settlements :
         (settlements[id].status # "completed" /\ settlements'[id].status = "completed")
         => \A u \in Users :
              BalanceOf(Recomputed(settlements[id].group_id)', u)
              = BalanceOf(Recomputed(settlements[id].group_id), u)
                + (IF u = settlements[id].from_user_id THEN settlements[id].amount_inr ELSE 0)
                - (IF u = settlements[id].to_user_id THEN settlements[id].amount_inr ELSE 0)]_vars

\* a settlement has been completed in a group with a live expense, and the
\* balances of its parties are not both zero
C3_Witness ==
    \E id \in DOMAIN settlements :
        /\ settlements[id].status = "completed"
        /\ LiveExpenses(expenses, settlements[id].group_id) # {}
        /\ BalanceOf(Recomputed(settlements[id].group_id), settlements[id].from_user_id) # 0

\* C4: Removed-member retention.  A user whose membership is not active but
\* who has activity in the group is listed in the recomputed result, with
\* paid - split share + completed sent - completed received.
C4_RemovedMemberRetained ==
    \A g \in Groups, u \in Users :
        (members[g][u] # "active" /\ HasActivity(g, u))
        => /\ u \in DOMAIN Recomputed(g)
           /\ Recomputed(g)[u] = LedgerBalance(g, u)

\* C9: Only completed settlements participate.  A step that changes the
\* settlement rows without completing one (create_settlement, which stores
\* a pending row, update_settlement, cancel_settlement) leaves the
\* recomputed balances of every group as they were.
C9_OnlyCompletedCount ==
    [][(/\ settlements' # settlements
        /\ \A id \in DOMAIN settlements' :
              settlements'[id].status = "completed"
              => (id \in DOMAIN settlements /\ settlements[id].status = "completed"))
       => \A g \in Groups : Recomputed(g)' = Recomputed(g)]_vars

\* a cancelled settlement and a pending one with a changed method exist
\* beside a live expense
C9_Witness ==
    \E id \in DOMAIN settlements :
        /\ settlements[id].status = "cancelled"
        /\ settlements[id].method = "upi"
        /\ LiveExpenses(expenses, settlements[id].group_id) # {}

\* the rows without expense id and without its splits
ExpensesWithout(id) == [i \in DOMAIN expenses \ {id} |-> expenses[i]]

SplitsWithout(id) == {s \in expense_splits : s.expense_id # id}

\* C10: Deleted expenses are excluded together with their splits.  After a
\* step that soft-deletes an expense, the recomputed balances are those of
\* the same rows with that expense and its splits removed.
C10_DeletedExcluded ==
    [][\A id \in DOMAIN expenses :
         (~expenses[id].deleted /\ expenses'[id].deleted)
         => Recomputed(expenses[id].group_id)'
            = ComputeBalances(members, ExpensesWithout(id), SplitsWithout(id),
                              settlements, expenses[id].group_id)]_vars

\* an expense with split rows has been soft-deleted
C10_Witness ==
    \E id \in DOMAIN expenses :
        /\ expenses[id].deleted
        /\ \E s \in expense_splits : s.expense_id = id /\ s.amount_inr > 0
        /\ ActiveMembers(members, expenses[id].group_id) # {}

(***************************************************************************)
(* Properties of the simplifier.                                           *)
(***************************************************************************)
InputSum == SeqSum([k \in DOMAIN simp.balances |-> simp.balances[k].balance_inr])

TransfersFrom(u) ==
    SeqSum([k \in DOMAIN simp.simplified_debts |->
              IF simp.simplified_debts[k].from_user_id = u
              THEN simp.simplified_debts[k].amount ELSE 0])

TransfersTo(u) ==
    SeqSum([k \in DOMAIN simp.simplified_debts |->
              IF simp.simplified_debts[k].to_user_id = u
              THEN simp.simplified_debts[k].amount ELSE 0])

\* the balance of entry k once every returned transfer has been applied
NetAfterTransfers(k) ==
    simp.balances[k].balance_inr + TransfersFrom(simp.balances[k].user_id)
    - TransfersTo(simp.balances[k].user_id)

NonZeroCount == Cardinality({k \in DOMAIN simp.balances : simp.balances[k].balance_inr # 0})

\* C2: Simplifier correctness.  For a balance list that sums to zero, after
\* every returned transfer is applied each user's net balance is within
\* 0.01 of zero.
C2_SimplifierSettles ==
    (simp.pc = "done" /\ InputSum = 0)
    => \A k \in DOMAIN simp.balances : Abs(NetAfterTransfers(k)) <= DUST

\* C5: Transfer count bound.  The list simplify_debts returns has at most
\* max(0, n - 1) entries, n the number of non-zero input balances.  The
\* list only grows during the call, so the bound is stated for every
\* position of the call, the return included.
C5_TransferCountBound ==
    Len(simp.simplified_debts) <= (IF NonZeroCount = 0 THEN 0 ELSE NonZeroCount - 1)

\* a returned list that attains the bound on an input with three non-zero
\* balances
C5_Witness ==
    /\ simp.pc = "done"
    /\ NonZeroCount = 3
    /\ Len(simp.simplified_debts) = 2

(***************************************************************************)
(* Properties of the cache under concurrent requests.                      *)
(***************************************************************************)
\* an entry written before commit number n is still under key k
WrittenBefore(k, n) == redis[k] # NoEntry /\ redis[k][1].written_at < n

InvalidatingOps ==
    {"create_expense", "update_expense", "delete_expense",
     "create_settlement", "complete_settlement"}

BalanceChangingOps ==
    {"create_expense", "update_expense", "delete_expense", "complete_settlement"}

\* C6: No stale read after acknowledgement.  A calculate_group_balances call
\* that starts when every commit has been acknowledged, and returns before
\* another commit, returns the balances of the committed rows.
C6_NoStaleReadAfterAck ==
    \A r \in DOMAIN procs :
        (/\ procs[r].pc = "return"
         /\ procs[r].op = "calculate_group_balances"
         /\ procs[r].started_at = commit_count)
        => procs[r].result[1] = Recomputed(procs[r].group_id)

C8_UserInvalidatedBeforeAck ==
    \A w \in DOMAIN procs :
        (procs[w].pc = "respond" /\ procs[w].op \in BalanceChangingOps)
        => \A u \in procs[w].affected : ~WrittenBefore(UserKey(u), procs[w].commit_no)

(***************************************************************************)
(* Further properties of the aggregator.                                   *)
(***************************************************************************)
\* the users the result is to list: active members, payers and split users
\* of non-deleted expenses, parties of completed settlements
UnionOfUsers(g) == {u \in Users : members[g][u] = "active" \/ HasActivity(g, u)}

\* C11: Union rule.  The recomputed result lists exactly the active members
\* of the group, the payers and split users of its non-deleted expenses and
\* the parties of its completed settlements, and an active member without
\* activity is listed with balance 0.
C11_UnionRule ==
    \A g \in Groups :
        /\ DOMAIN Recomputed(g) = UnionOfUsers(g)
        /\ \A u \in UnionOfUsers(g) :
               (members[g][u] = "active" /\ ~HasActivity(g, u)) => Recomputed(g)[u] = 0

InputBalance(u) ==
    SeqSum([k \in DOMAIN simp.balances |->
              IF simp.balances[k].user_id = u THEN simp.balances[k].balance_inr ELSE 0])

\* C12: Transfer positivity.  Every transfer of the list simplify_debts
\* builds has an amount above 0.01, hence strictly positive, goes from a
\* user with a negative input balance to a user with a positive one, and so
\* never from a user to themselves.
C12_TransfersPositive ==
    \A k \in DOMAIN simp.simplified_debts :
        LET t == simp.simplified_debts[k]
        IN  /\ t.amount > DUST
            /\ t.amount > 0
            /\ InputBalance(t.from_user_id) < 0
            /\ InputBalance(t.to_user_id) > 0
            /\ t.from_user_id # t.to_user_id

\* the call has returned two transfers
C12_Witness == simp.pc = "done" /\ Len(simp.simplified_debts) = 2

\* the expiry the engine gives the entry under key k
ExpectedTTL(k) == IF k[1] = "balance:user" THEN USER_TTL ELSE GROUP_TTL

\* C14: TTL bounds staleness.  Every entry the engine writes carries a finite
\* expiry, 300 s for a group snapshot and the shorter 120 s for a personal
\* aggregate, and every entry, a stale one that no invalidation deletes
\* included, is eventually gone, so that the next read recomputes.
C14_TTLBoundsStaleness ==
    /\ [](\A k \in Keys :
            redis[k] # NoEntry
            => /\ redis[k][1].ttl = ExpectedTTL(k)
               /\ redis[k][1].ttl > 0
               /\ USER_TTL < GROUP_TTL)
    /\ \A k \in Keys : (redis[k] # NoEntry) ~> (redis[k] = NoEntry)

\* a personal aggregate cached before the latest commit is still stored
\* after the writer has answered: only its expiry can remove it
C14_Witness ==
    \E u \in Users :
        /\ WrittenBefore(UserKey(u), commit_count)
        /\ acked_count = commit_count
        /\ \A w \in Writers : procs[w].pc = "idle"

(***************************************************************************)
(* Further properties of the handlers.                                     *)
(***************************************************************************)
\* C15: cancel_settlement drives cache invalidation.  In a step in which a
\* settlement becomes cancelled, the snapshot of its group is deleted: no
\* entry is under balance:group:{group_id} when the handler has returned.
C15_CancelInvalidates ==
    [][\A id \in DOMAIN settlements :
         (settlements[id].status # "cancelled" /\ settlements'[id].status = "cancelled")
         => redis'[GroupKey(settlements[id].group_id)] = NoEntry]_vars

\* the stored split rows of expense id
SplitsOf(id) == {s \in expense_splits : s.expense_id = id}

\* C16: Upstream split invariant.  The stored split amounts of every expense
\* create_expense or update_expense has accepted sum to the amount of the
\* expense.
C16_SplitsSumToAmount ==
    \A id \in DOMAIN expenses :
        Sum([s \in SplitsOf(id) |-> s.amount_inr], SplitsOf(id)) = expenses[id].amount_inr

Transfer(from, to, amount) == [from_user_id |-> from, to_user_id |-> to, amount |-> amount]

TransferSet == {simp.simplified_debts[k] : k \in DOMAIN simp.simplified_debts}

\* C17: Concrete scenario.  With a, b, c active, one expense of 300.00 paid
\* by a and split 100.00 each gives a = +200.00, b = -100.00, c = -100.00 and
\* simplify_debts returns exactly the transfers b -> a 100.00 and
\* c -> a 100.00; after a completed settlement of 100.00 from b to a the
\* balances are a = +100.00, b = 0.00, c = -100.00 and simplify_debts returns
\* exactly the one transfer c -> a 100.00.
C17_ConcreteScenario ==
    /\ \A s \in ScenarioSplits : s.amount_inr = 100 * 100
    /\ ScenarioBalancesBefore
           = [u \in Users |-> IF u = "a" THEN 200 * 100 ELSE -(100 * 100)]
    /\ ScenarioBalancesAfter
           = [u \in Users |-> IF u = "a" THEN 100 * 100 ELSE IF u = "b" THEN 0 ELSE -(100 * 100)]
    /\ (simp.pc = "done" /\ simp.balances \in ResultLists(ScenarioBalancesBefore))
           => /\ Len(simp.simplified_debts) = 2
              /\ TransferSet = {Transfer("b", "a", 100 * 100), Transfer("c", "a", 100 * 100)}
    /\ (simp.pc = "done" /\ simp.balances \in ResultLists(ScenarioBalancesAfter))
           => simp.simplified_debts = <<Transfer("c", "a", 100 * 100)>>

C17_Witness ==
    /\ simp.pc = "done"
    /\ simp.balances \in ResultLists(ScenarioBalancesAfter)
    /\ Len(simp.simplified_debts) = 1

NoRows(g) ==
    /\ \A id \in DOMAIN expenses : expenses[id].group_id # g
    /\ \A s \in expense_splits : expenses[s.expense_id].group_id # g
    /\ \A id \in DOMAIN settlements : settlements[id].group_id # g

\* C18: Empty input is not an error.  When a group has no active member and
\* no expense, split or settlement row, calculate_group_balances returns the
\* empty list, and simplify_debts of the empty list is the empty list.
C18_EmptyInput ==
    /\ \A g \in Groups :
           ((\A u \in Users : members[g][u] # "active") /\ NoRows(g))
               => calculate_group_balances(g) = <<>>
    /\ simplify_debts(<<>>) = <<>>

\* every split of the request carries an amount
AmountBased(splits) ==
    DOMAIN splits # {} /\ \A u \in DOMAIN splits : splits[u].kind = "amount"

SplitTotal(splits) == Sum([u \in DOMAIN splits |-> splits[u].value], DOMAIN splits)

\* C19: Split mismatch is rejected.  A create_expense request whose splits
\* are amount-based and do not total the expense amount gets HTTP 400, and
\* no expense row, no split row and no cache invalidation results from it.
C19_SplitMismatchRejected ==
    [][(/\ procs' # <<>>
        /\ procs'[1].op = "create_expense"
        /\ AmountBased(procs'[1].splits)
        /\ SplitTotal(procs'[1].splits) # procs'[1].amount)
          => /\ procs'[1].status = 400
             /\ expenses' = expenses
             /\ expense_splits' = expense_splits
             /\ redis' = redis]_vars

\* C20: Non-positive amounts are rejected.  A create_expense request with an
\* amount <= 0 and a matching non-positive split gets HTTP 400 and persists
\* no expense or split row, and no stored expense has an amount <= 0.
C20_NonPositiveAmountRejected ==
    /\ [][(/\ procs' # <<>>
           /\ procs'[1].op = "create_expense"
           /\ procs'[1].amount <= 0
           /\ AmountBased(procs'[1].splits)
           /\ \A u \in DOMAIN procs'[1].splits : procs'[1].splits[u].value <= 0
           /\ SplitTotal(procs'[1].splits) = procs'[1].amount)
             => /\ procs'[1].status = 400
                /\ expenses' = expenses
                /\ expense_splits' = expense_splits]_vars
    /\ [](\A id \in DOMAIN expenses : expenses[id].amount_inr > 0)

(***************************************************************************)
(* Properties over histories of the sequential handlers.                   *)
(***************************************************************************)
SplitsMatch(g) ==
    \A id \in DOMAIN expenses :
        (expenses[id].group_id = g /\ ~expenses[id].deleted)
            => Sum([s \in SplitsOf(id) |-> s.amount_inr], SplitsOf(id)) = expenses[id].amount_inr

\* C21: Conditional zero-sum over histories.  If in every non-deleted
\* expense of a group the split amounts sum exactly to the expense amount,
\* then after any sequence of expense and settlement operations the
\* balances an uncached calculate_group_balances returns sum to exactly
\* zero.
C21_ConditionalZeroSum ==
    \A g \in Groups : SplitsMatch(g) => SumOfBalances(Recomputed(g)) = 0

C21_Witness ==
    \E g \in Groups :
        /\ SplitsMatch(g)
        /\ \E id \in DOMAIN expenses : expenses[id].group_id = g /\ ~expenses[id].deleted
        /\ \E id \in DOMAIN settlements :
               settlements[id].group_id = g /\ settlements[id].status = "completed"
        /\ \E u \in DOMAIN Recomputed(g) : Recomputed(g)[u] # 0

(***************************************************************************)
(* Properties of concurrent status changes.                                *)
(***************************************************************************)
\* no handler has loaded the settlement and not yet committed
StatusFinal(id) ==
    \A h \in DOMAIN procs : ~(procs[h].pc = "loaded" /\ procs[h].result = <<id>>)

\* the balances of the group with the settlement counted as completed
BalancesWithApplied(id) ==
    ComputeBalances(members, expenses, expense_splits,
                    WithStatus(settlements, id, "completed"), settlements[id].group_id)

\* C22: Concurrent status changes of one settlement.  Whatever the
\* interleaving of complete_settlement and cancel_settlement on a pending
\* settlement, its status changes only from pending (one transition takes
\* effect: completed is never overwritten to cancelled, nor cancelled to
\* completed), and the cached group balances never show as applied a
\* settlement whose final status is cancelled.
C22_OneTransitionTakesEffect ==
    /\ [][\A id \in DOMAIN settlements :
            settlements'[id].status # settlements[id].status
                => settlements[id].status = "pending"]_vars
    /\ [](\A id \in DOMAIN settlements :
            (/\ settlements[id].status = "cancelled"
             /\ StatusFinal(id)
             /\ CacheHit(redis, GroupKey(settlements[id].group_id)))
                => json_loads(redis[GroupKey(settlements[id].group_id)][1].data)
                       # BalancesWithApplied(id))

(***************************************************************************)
(* Properties of the membership handlers.                                  *)
(***************************************************************************)
\* C23: leave_group blocks on pending dues.  Whenever the balance of the
\* caller computed from the current rows is non-zero, leave_group answers
\* 409 and leaves the membership rows, the ownership and the archive state
\* as they were, also when its balance check is served from the cache; no
\* membership goes from active to left while the balance of that user is
\* non-zero.
C23_LeaveBlockedOnDues ==
    [][\A g \in Groups, u \in Users :
         Get(Recomputed(g), u) # 0
             => /\ LeaveGroup(u, g)
                    => /\ leave_group_status(u, g) = 409
                       /\ UNCHANGED <<members, group_owner, group_archived>>
                /\ ~(members[g][u] = "active" /\ members'[g][u] = "left")]_vars

\* C24: remove_member blocks on pending dues.  Whenever the balance of the
\* target member in the group is non-zero, remove_member answers 409 and
\* leaves the member's status as it was: remove_member never sets a
\* membership to removed while the balance of that user is non-zero.
C24_RemoveBlockedOnDues ==
    [][\A c \in Users, g \in Groups, u \in Users :
         (Get(calculate_group_balances(g), u) # 0 /\ RemoveMember(c, g, u))
             => /\ remove_member_status(c, g, u) = 409
                /\ members'[g][u] = members[g][u]]_vars

(***************************************************************************)
(* Properties of the settlement handlers.                                  *)
(***************************************************************************)
Parties(row) == <<row.group_id, row.from_user_id, row.to_user_id, row.amount_inr>>

ListLengths == Len(Creditors(simp.balances)) + Len(Debtors(simp.balances))

CursorExhausted == simp.i > Len(simp.creditors) \/ simp.j > Len(simp.debtors)

\* the walk of C26 apart from the count of iterations: the call returns,
\* every iteration moves a cursor forward, the cap of the model on the
\* iterations is never what stops the loop, and at the return a cursor has
\* run off its list
WalkTerminates ==
    /\ <>(simp.pc = "done")
    /\ [][simp'.iters = simp.iters + 1 => simp'.i + simp'.j > simp.i + simp.j]_vars
    /\ [](/\ (simp.pc = "loop" /\ LoopCondition(simp)) => simp.iters < MaxIter
          /\ simp.pc = "done" => CursorExhausted)

\* C26 as stated: at most |creditors| + |debtors| - 1 iterations for every
\* input list
C26_AsStated ==
    WalkTerminates /\ [](simp.iters <= ListLengths - 1)

\* C26: simplify_debts terminates for every input list, balanced or not:
\* every iteration advances a cursor, the loop stops as soon as a cursor has
\* run off its list, and the iterations number at most
\* |creditors| + |debtors| - 1, and none when that is below zero (no
\* creditor and no debtor).
C26_Terminates ==
    WalkTerminates
    /\ [](simp.iters <= (IF ListLengths = 0 THEN 0 ELSE ListLengths - 1))

\* an unbalanced input walked to the return in as many iterations as the
\* bound allows, with a remainder left unmatched
C26_Witness ==
    /\ simp.pc = "done"
    /\ InputSum # 0
    /\ ListLengths = 3
    /\ simp.iters = 2

\* the place of a user in the input list
PosOf(u) == CHOOSE k \in DOMAIN simp.balances : simp.balances[k].user_id = u

\* largest first, equal amounts in the order of the input
SortedStable(list) ==
    \A k, l \in DOMAIN list :
        k < l => \/ list[k].amount > list[l].amount
                 \/ /\ list[k].amount = list[l].amount
                    /\ PosOf(list[k].user_id) < PosOf(list[l].user_id)

MaxCredit == CHOOSE m \in {0} \cup {Creditors(simp.balances)[k].amount : k \in DOMAIN Creditors(simp.balances)} :
                 \A k \in DOMAIN Creditors(simp.balances) : Creditors(simp.balances)[k].amount <= m

MaxDebt == CHOOSE m \in {0} \cup {Debtors(simp.balances)[k].amount : k \in DOMAIN Debtors(simp.balances)} :
               \A k \in DOMAIN Debtors(simp.balances) : Debtors(simp.balances)[k].amount <= m

\* C27: Greedy largest-first matching.  simplify_debts walks the creditors
\* in descending order of credit and the debtors in descending order of
\* debt, ties in input order; a transfer emitted in an iteration is from
\* the current debtor to the current creditor and its amount is the minimum
\* of what remains of the two; the cursors never move backwards; a
\* transfer emitted in the first iteration pairs the largest debtor with
\* the largest creditor.
C27_GreedyLargestFirst ==
    /\ [](simp.pc # "start"
            => /\ {simp.creditors[k].user_id : k \in DOMAIN simp.creditors}
                      = {b.user_id : b \in {simp.balances[k] : k \in {n \in DOMAIN simp.balances : simp.balances[n].balance_inr > 0}}}
               /\ {simp.debtors[k].user_id : k \in DOMAIN simp.debtors}
                      = {b.user_id : b \in {simp.balances[k] : k \in {n \in DOMAIN simp.balances : simp.balances[n].balance_inr < 0}}})
    /\ []((simp.pc = "loop" /\ simp.iters = 0)
            => /\ SortedStable(simp.creditors)
               /\ SortedStable(simp.debtors)
               /\ \A k \in DOMAIN simp.creditors :
                      simp.creditors[k].amount = InputBalance(simp.creditors[k].user_id)
               /\ \A k \in DOMAIN simp.debtors :
                      simp.debtors[k].amount = -InputBalance(simp.debtors[k].user_id))
    /\ [][/\ simp'.i >= simp.i
          /\ simp'.j >= simp.j
          /\ Len(simp'.simplified_debts) > Len(simp.simplified_debts)
                => /\ simp'.simplified_debts
                          = Append(simp.simplified_debts,
                                   Transfer(simp.debtors[simp.j].user_id,
                                            simp.creditors[simp.i].user_id,
                                            Min(simp.creditors[simp.i].amount,
                                                simp.debtors[simp.j].amount)))
                   /\ simp.iters = 0
                          => /\ InputBalance(simp'.simplified_debts[1].to_user_id) = MaxCredit
                             /\ InputBalance(simp'.simplified_debts[1].from_user_id) = -MaxDebt]_vars

\* a returned list of two transfers on an input with two equal creditors
C27_Witness ==
    /\ simp.pc = "done"
    /\ Len(simp.simplified_debts) = 2
    /\ \E k, l \in DOMAIN simp.balances :
           k < l /\ simp.balances[k].balance_inr = simp.balances[l].balance_inr
                 /\ simp.balances[k].balance_inr > 0

\* C28: No over-settlement.  The transfers simplify_debts has emitted never
\* pay more than is owed: for each debtor the transfers from them total at
\* most their debt, for each creditor the transfers to them total at most
\* their credit, and no remaining amount of the walk is negative.
C28_NoOverSettlement ==
    /\ \A k \in DOMAIN simp.balances :
           LET b == simp.balances[k]
           IN  /\ b.balance_inr < 0 => TransfersFrom(b.user_id) <= -b.balance_inr
               /\ b.balance_inr > 0 => TransfersTo(b.user_id) <= b.balance_inr
               /\ b.balance_inr >= 0 => TransfersFrom(b.user_id) = 0
               /\ b.balance_inr <= 0 => TransfersTo(b.user_id) = 0
    /\ \A k \in DOMAIN simp.creditors : simp.creditors[k].amount >= 0
    /\ \A k \in DOMAIN simp.debtors : simp.debtors[k].amount >= 0

\* a returned list in which one debtor pays two creditors the whole debt
C28_Witness ==
    /\ simp.pc = "done"
    /\ \E k \in DOMAIN simp.balances :
           /\ simp.balances[k].balance_inr < 0
           /\ TransfersFrom(simp.balances[k].user_id) = -simp.balances[k].balance_inr
           /\ Cardinality({n \in DOMAIN simp.simplified_debts :
                             simp.simplified_debts[n].from_user_id = simp.balances[k].user_id}) = 2

(***************************************************************************)
(* Properties relating the personal aggregate to the group balances.       *)
(***************************************************************************)
ActiveGroups(u) == {g \in DOMAIN members : members[g][u] = "active"}

\* C29: Consistency of the two aggregations.  For every user and every
\* ledger, the uncached calculate_user_net_balance equals the sum, over the
\* groups where the user is an active member, of the user's balance in the
\* uncached calculate_group_balances of the group; a group where the user
\* is no longer active contributes nothing, and a user without an active
\* membership gets 0.
C29_AggregationsConsistent ==
    \A u \in Users :
        /\ UserNetBalance(members, expenses, expense_splits, settlements, u)
               = Sum([g \in ActiveGroups(u) |-> Get(Recomputed(g), u)], ActiveGroups(u))
        /\ ActiveGroups(u) = {}
               => UserNetBalance(members, expenses, expense_splits, settlements, u) = 0

\* a user with a non-zero balance in a group where they are active and a
\* non-zero ledger balance in a group where they no longer are
C29_Witness ==
    \E u \in Users, g \in DOMAIN members, h \in DOMAIN members :
        /\ members[g][u] = "active"
        /\ Get(Recomputed(g), u) # 0
        /\ members[h][u] # "active"
        /\ LedgerBalance(h, u) # 0
        /\ UserNetBalance(members, expenses, expense_splits, settlements, u)
               = Get(Recomputed(g), u)

(***************************************************************************)
(* update_expense step by step.  The handler works in the transaction of   *)
(* its session: it deletes the split rows of the expense, validates the    *)
(* new splits, adds the new rows and commits; the invalidation follows the *)
(* commit.  When a validation raises, get_db closes the session in its     *)
(* finally clause and the open transaction is rolled back.  procs holds    *)
(* the request being served with the rows its transaction has deleted and  *)
(* added and not yet committed.                                            *)
(***************************************************************************)
UpdateSplitLists == SplitLists \cup RequestSplitLists

\* db.close() with an open transaction commits what the transaction did
SessionClosed_Commits(rows, tx) == (rows \ tx.deleted) \cup tx.added

\* db.close() of get_db: the open transaction is rolled back
SessionClosed(rows, tx) == rows

\* db.commit()
SessionCommitted(rows, tx) == (rows \ tx.deleted) \cup tx.added

\* the expense is loaded, the caller passes the membership and permission
\* checks, and the split rows of the expense are deleted in the transaction
UpdateDeleteSplits(caller, id, splits) ==
    /\ procs = <<>>
    /\ update_expense_status(caller, id, FALSE, <<>>) = 200
    /\ procs' = <<[op |-> "update_expense", pc |-> "validate", status |-> 0,
                   id |-> id, splits |-> splits,
                   deleted |-> SplitsOf(id), added |-> {}]>>
    /\ UNCHANGED <<db, redis, simp, commit_count, acked_count>>

\* _validate_split_users and _calculate_splits; a 400 ends the request and
\* the session is closed, else the new rows are added to the transaction
UpdateValidate ==
    /\ procs # <<>>
    /\ procs[1].pc = "validate"
    /\ LET tx == procs[1]
           g == expenses[tx.id].group_id
           calc == calculate_splits(expenses[tx.id].amount_inr, tx.splits)
       IN  IF ~SplitUsersValid(g, tx.splits) \/ ~calc.ok
           THEN /\ expense_splits' = SessionClosed(expense_splits, tx)
                /\ procs' = <<[tx EXCEPT !.pc = "closed", !.status = 400]>>
           ELSE /\ expense_splits' = expense_splits
                /\ procs' = <<[tx EXCEPT !.pc = "commit",
                                         !.added = SplitRows(tx.id, calc.rows)]>>
    /\ UNCHANGED <<group_owner, group_archived, members, expenses, settlements,
                   redis, simp, commit_count, acked_count>>

\* db.commit(), then the two invalidation calls
UpdateCommit ==
    /\ procs # <<>>
    /\ procs[1].pc = "commit"
    /\ expense_splits' = SessionCommitted(expense_splits, procs[1])
    /\ redis' = InvalidateAfterWrite(redis, expenses[procs[1].id].group_id)
    /\ procs' = <<[procs[1] EXCEPT !.pc = "closed", !.status = 200]>>
    /\ UNCHANGED <<group_owner, group_archived, members, expenses, settlements,
                   simp, commit_count, acked_count>>

\* the response is sent
UpdateReturn ==
    /\ procs # <<>>
    /\ procs[1].pc = "closed"
    /\ procs' = <<>>
    /\ UNCHANGED <<db, redis, simp, commit_count, acked_count>>

NextUpdate ==
    \/ \E g \in Groups, a \in 1..MaxAmount, sp \in RequestSplits :
           CreateExpense(g, "a", a, sp)
    \/ \E g \in Groups : GetGroupBalances(g)
    \/ \E c \in Users, g \in Groups, u \in Users : RemoveMember(c, g, u)
    \/ \E c \in Users, id \in 1..MaxExpenses, sp \in UpdateSplitLists :
           UpdateDeleteSplits(c, id, sp)
    \/ UpdateValidate
    \/ UpdateCommit
    \/ UpdateReturn

SpecUpdate == Init /\ [][NextUpdate]_vars

(***************************************************************************)
(* Properties of update_expense.                                           *)
(***************************************************************************)
\* C30: update_expense is all-or-nothing on its splits.  When an update
\* that carries new splits fails validation (a split user is not an active
\* member, the totals do not match, or percentage and amount splits are
\* mixed), the stored splits of the expense are exactly those from before
\* the request, and the step in which the request is rejected changes no
\* row, no balance and no cache entry; only the commit of an accepted
\* update changes the split rows.
C30_UpdateAllOrNothing ==
    /\ []((procs # <<>> /\ procs[1].status = 400)
            => SplitsOf(procs[1].id) = procs[1].deleted)
    /\ [][(procs' # <<>> /\ procs'[1].status # 200 /\ procs' # procs)
             => /\ db' = db
                /\ redis' = redis
                /\ \A g \in Groups : Recomputed(g)' = Recomputed(g)]_vars

\* a rejected update of an expense that has split rows, with the balances
\* of its group in the cache
C30_Witness ==
    /\ procs # <<>>
    /\ procs[1].status = 400
    /\ procs[1].deleted # {}
    /\ SplitsOf(procs[1].id) = procs[1].deleted
    /\ CacheHit(redis, GroupKey(expenses[procs[1].id].group_id))

=============================================================================
